---- MODULE Spec2Model ----
(***************************************************************************)
(* Model of the YouTube course player component (src/app/page.tsx): the    *)
(* React state of YouTubeCoursePlayer, its effects, its event handlers,    *)
(* the embedded player, the sampling interval and localStorage.            *)
(*                                                                         *)
(* A handler and the render and effects that React commits for its state   *)
(* updates form one action.  A function value that outlives the render     *)
(* that created it (the player's event callbacks, the interval callback,   *)
(* window.onYouTubeIframeAPIReady) is modelled by the snapshot of the      *)
(* state it closed over.                                                   *)
(***************************************************************************)
EXTENDS Integers, Sequences, FiniteSets, TLC

\* ---------------------------------------------------------------- bounds
MaxTime == 1        \* the player clock ranges over 0..MaxTime
MaxWatch == 1       \* totalWatchTime is explored up to this value
MaxInflight == 2    \* fetches that may be awaiting a response at once
MaxTimers == 2      \* interval ids the browser can hand out
MaxLen == 3         \* chapter-list length in the resolution probe
MaxOffset == 3      \* chapter offsets in the resolution probe

\* ------------------------------------------------------------ environment
Videos == {"A", "B"}

\* What the user can type into the URL field.
Urls == {"", "not a video", "youtu.be/A", "youtu.be/B"}

\* The chapter source: for each video the "time" strings of its chapters,
\* already split at ':' into their numeric parts.  Video A has two
\* chapters ("0:00" and "0:00:01"), video B has one ("0").
ChapterSource(id) ==
  IF id = "A" THEN << <<0, 0>>, <<0, 0, 1>> >>
              ELSE << <<0>> >>

\* Date.now(): the wall clock is opaque to the component.
DateNow == "now"

\* Number values that are not integers.
NaN == -1
Infinity == -2
JSONnull == -3

VARIABLES
  phase,                    \* life cycle of the page (session)
  strictMode,               \* development build: effects mount twice
  pass,                     \* which mount pass of the effects is running
  pendingProgress,          \* setProgress values queued for the next render
  localStorage,             \* value under 'youtube-course-progress'
  chapters, loading, error, videoId, progress, currentChapter, playerReady,
  playerRef,                \* playerRef.current
  progressIntervalRef,      \* progressIntervalRef.current (0 = null)
  timers,                   \* active intervals: id -> closure of trackProgress
  windowYT,                 \* window.YT is defined
  onYouTubeIframeAPIReady,  \* closure stored in window.onYouTubeIframeAPIReady
  inflight,                 \* fetch requests awaiting their response
  probe                     \* inputs and result of the resolution probe

vars == << phase, strictMode, pass, pendingProgress, localStorage,
           chapters, loading, error, videoId, progress, currentChapter,
           playerReady, playerRef, progressIntervalRef, timers, windowYT,
           onYouTubeIframeAPIReady, inflight, probe >>

reactState == << chapters, loading, error, videoId, progress, currentChapter,
                 playerReady >>
trackerState == << playerRef, progressIntervalRef, timers, windowYT,
                   onYouTubeIframeAPIReady >>

\* ------------------------------------------------------------ pure helpers
TimerIds == 1..MaxTimers

\* The state a function closes over in the render that creates it.
Closure(chs, cur, vid) ==
  [chapters |-> chs, currentChapter |-> cur, videoId |-> vid]

NoClosure == Closure(<< >>, 0, "")

NoPlayer == [kind |-> "null", time |-> 0, closure |-> NoClosure]

EmptyStore == << >>

Range(s) == {s[i] : i \in 1..Len(s)}

extractVideoId(u) ==
  IF u = "youtu.be/A" THEN "A" ELSE IF u = "youtu.be/B" THEN "B" ELSE ""

parseTimeToSeconds(parts) ==
  IF Len(parts) = 3 THEN parts[1] * 3600 + parts[2] * 60 + parts[3]
  ELSE IF Len(parts) = 2 THEN parts[1] * 60 + parts[2]
  ELSE parts[1]

chaptersWithTimestamps(data) ==
  [i \in 1..Len(data) |-> parseTimeToSeconds(data[i])]

\* Math.round((k / n) * 100)
MathRoundPercent(k, n) ==
  IF n = 0 THEN (IF k = 0 THEN NaN ELSE Infinity)
  ELSE (200 * k + n) \div (2 * n)

\* Variant: a fresh record already counts one interval of watch time.
DefaultProgressWatched ==
  [completedChapters |-> << >>, lastWatchedChapter |-> -1,
   progressPercentage |-> 0, totalWatchTime |-> 1, timestamp |-> "now"]

DefaultProgress ==
  [completedChapters |-> << >>, lastWatchedChapter |-> -1,
   progressPercentage |-> 0, totalWatchTime |-> 0, timestamp |-> DateNow]

\* prev[videoId] || { default }
VideoProgressOf(prev, vid) ==
  IF vid \in DOMAIN prev THEN prev[vid] ELSE DefaultProgress

\* { ...prev, [videoId]: rec }
WithRecord(prev, vid, rec) ==
  [v \in (DOMAIN prev) \cup {vid} |-> IF v = vid THEN rec ELSE prev[v]]

\* getVideoProgress: null (the empty sequence) without a video or a record.
getVideoProgress(p, vid) ==
  IF vid = "" \/ vid \notin DOMAIN p THEN << >> ELSE << p[vid] >>

\* const progressPercentage = videoProgress?.progressPercentage || 0
progressPercentageShown(p, vid) ==
  LET videoProgress == getVideoProgress(p, vid)
  IN IF videoProgress = << >> THEN 0
     ELSE IF videoProgress[1].progressPercentage = NaN THEN 0
     ELSE videoProgress[1].progressPercentage

\* videoProgress?.completedChapters.includes(index)
isCompletedShown(p, vid, index) ==
  LET videoProgress == getVideoProgress(p, vid)
  IN IF videoProgress = << >> THEN FALSE
     ELSE index \in Range(videoProgress[1].completedChapters)

JSONstringify(p) ==
  [kind |-> "json",
   value |-> [v \in DOMAIN p |->
               [p[v] EXCEPT !.progressPercentage =
                  IF @ \in {NaN, Infinity} THEN JSONnull ELSE @]]]

JSONparse(s) == s.value

AbsentItem == [kind |-> "null", value |-> EmptyStore]
MalformedItem == [kind |-> "garbage", value |-> EmptyStore]

\* Variant: a chapter counts only once currentTime has passed its offset.
RECURSIVE ScanChaptersStrict(_, _, _)
ScanChaptersStrict(chs, currentTime, i) ==
  IF i < 0 THEN 0
  ELSE IF currentTime > chs[i + 1] THEN i
  ELSE ScanChaptersStrict(chs, currentTime, i - 1)

\* The loop of trackProgress that finds the current chapter: scan from the
\* last chapter down, 0 when no chapter starts at or before currentTime.
RECURSIVE ScanChapters(_, _, _)
ScanChapters(chs, currentTime, i) ==
  IF i < 0 THEN 0
  ELSE IF currentTime >= chs[i + 1] THEN i
  ELSE ScanChapters(chs, currentTime, i - 1)

ResolveChapter(chs, currentTime) == ScanChapters(chs, currentTime, Len(chs) - 1)

\* Array.from({ length: n }, (_, i) => i)
ArrayFromLength(n) == [i \in 1..n |-> i - 1]

\* [...new Set(s)]: first occurrences, in order.
RECURSIVE Dedup(_)
Dedup(s) ==
  IF s = << >> THEN << >>
  ELSE LET init == Dedup(SubSeq(s, 1, Len(s) - 1))
           last == s[Len(s)]
       IN IF last \in Range(init) THEN init ELSE Append(init, last)

\* The updater passed to setProgress by trackProgress.
ApplyChapterAdvance(prev, vid, chs, newCurrentChapter) ==
  LET videoProgress == VideoProgressOf(prev, vid)
      newCompletedChapters ==
        Dedup(videoProgress.completedChapters \o ArrayFromLength(newCurrentChapter))
  IN WithRecord(prev, vid,
       [videoProgress EXCEPT
          !.completedChapters = newCompletedChapters,
          !.lastWatchedChapter = newCurrentChapter,
          !.progressPercentage =
             MathRoundPercent(Len(newCompletedChapters), Len(chs)),
          !.totalWatchTime = @ + 1,
          !.timestamp = DateNow])

\* Variant: marks the chapter completed, never un-completes it.
ToggleCompletionAddOnly(prev, vid, chs, chapterIndex) ==
  LET videoProgress == VideoProgressOf(prev, vid)
      newCompletedChapters ==
        Dedup(Append(videoProgress.completedChapters, chapterIndex))
  IN WithRecord(prev, vid,
       [videoProgress EXCEPT
          !.completedChapters = newCompletedChapters,
          !.lastWatchedChapter = chapterIndex,
          !.progressPercentage =
             MathRoundPercent(Len(newCompletedChapters), Len(chs)),
          !.timestamp = DateNow])

\* The updater passed to setProgress by markChapterCompleted.
ToggleCompletion(prev, vid, chs, chapterIndex) ==
  LET videoProgress == VideoProgressOf(prev, vid)
      isCompleted == chapterIndex \in Range(videoProgress.completedChapters)
      newCompletedChapters ==
        IF isCompleted
        THEN SelectSeq(videoProgress.completedChapters,
                       LAMBDA idx : idx # chapterIndex)
        ELSE Append(videoProgress.completedChapters, chapterIndex)
  IN WithRecord(prev, vid,
       [videoProgress EXCEPT
          !.completedChapters = newCompletedChapters,
          !.lastWatchedChapter = chapterIndex,
          !.progressPercentage =
             MathRoundPercent(Len(newCompletedChapters), Len(chs)),
          !.timestamp = DateNow])

\* stopProgressTracking on (progressIntervalRef, timers)
stopProgressTracking(ref, tm) ==
  IF ref # 0
  THEN [ref |-> 0, timers |-> [tm EXCEPT ![ref] = NoClosure]]
  ELSE [ref |-> ref, timers |-> tm]

FreeTimerIds(tm) == {id \in TimerIds : tm[id] = NoClosure}

\* Variant: starts an interval without cancelling the one in the ref.
startProgressTrackingNoStop(ref, tm, c) ==
  LET id == CHOOSE x \in FreeTimerIds(tm) : \A y \in FreeTimerIds(tm) : x <= y
  IN [ref |-> id, timers |-> [tm EXCEPT ![id] = c]]

\* startProgressTracking: stop, then setInterval(trackProgress, 1000)
startProgressTracking(ref, tm, c) ==
  LET stopped == stopProgressTracking(ref, tm)
      id == CHOOSE x \in FreeTimerIds(stopped.timers) :
              \A y \in FreeTimerIds(stopped.timers) : x <= y
  IN [ref |-> id, timers |-> [stopped.timers EXCEPT ![id] = c]]

\* initializeYouTubePlayer, called with window.YT defined: the player is
\* attached to the element 'youtube-player', which is rendered only while
\* playerReady holds; without the element the object never becomes usable.
initializeYouTubePlayer(c, elementPresent, current) ==
  IF c.videoId = "" THEN current
  ELSE [kind |-> IF elementPresent THEN "loading" ELSE "broken",
        time |-> 0, closure |-> c]


\* ------------------------------------------------------------------- Init
NoTimers == [id \in TimerIds |-> NoClosure]
NoRequests == [v \in Videos |-> 0]
IdleProbe == [chapters |-> << 0 >>, time |-> 0, result |-> -1]

\* useState initial values (lines 23-34) of a page that is not yet mounted.
BlankPage ==
  /\ chapters = << >> /\ loading = FALSE /\ error = "" /\ videoId = ""
  /\ progress = EmptyStore /\ currentChapter = 0 /\ playerReady = FALSE
  /\ playerRef = NoPlayer /\ progressIntervalRef = 0 /\ timers = NoTimers
  /\ windowYT = FALSE /\ onYouTubeIframeAPIReady = NoClosure
  /\ inflight = NoRequests /\ pendingProgress = << >>
  /\ pass = 0 /\ strictMode = FALSE

Init ==
  /\ phase = "closed"
  /\ localStorage \in {AbsentItem, MalformedItem}
  /\ BlankPage
  /\ probe = IdleProbe

\* --------------------------------------------------------- session start
\* The page is opened: first render with the initial state.  A development
\* build (reactStrictMode) mounts every effect twice.
OpenSession(strict) ==
  /\ phase = "closed"
  /\ phase' = "loadEffect" /\ pass' = 1 /\ strictMode' = strict
  /\ UNCHANGED << pendingProgress, localStorage, reactState, trackerState,
                  inflight, probe >>

\* useEffect(() => { getItem; if (saved) setProgress(JSON.parse(saved)) }, [])
LoadProgressEffect ==
  /\ phase = "loadEffect"
  /\ IF localStorage.kind = "null"
     THEN phase' = "saveEffect" /\ UNCHANGED pendingProgress
     ELSE IF localStorage.kind = "garbage"
     THEN phase' = "crashed" /\ UNCHANGED pendingProgress
     ELSE /\ phase' = "saveEffect"
          /\ pendingProgress' = Append(pendingProgress, JSONparse(localStorage))
  /\ UNCHANGED << strictMode, pass, localStorage, reactState, trackerState,
                  inflight, probe >>

\* Variant: the save writes only the records that were already stored.
SaveProgressEffectKnownOnly(p) ==
  JSONstringify([v \in (DOMAIN p) \cap (DOMAIN localStorage.value) |-> p[v]])

\* useEffect(() => { setItem(JSON.stringify(progress)) }, [progress])
SaveProgressEffect(p) == JSONstringify(p)

MountSaveEffect ==
  /\ phase = "saveEffect"
  /\ localStorage' = SaveProgressEffect(progress)
  /\ phase' = "playerEffect"
  /\ UNCHANGED << strictMode, pass, pendingProgress, reactState, trackerState,
                  inflight, probe >>

\* The effect of lines 251-266 at mount: window.YT is not defined yet, the
\* script tag is inserted and the callback stored.  In a development build
\* the effects are then cleaned up and mounted a second time.
MountPlayerEffect ==
  /\ phase = "playerEffect"
  /\ LET stopped == stopProgressTracking(progressIntervalRef, timers)
     IN IF strictMode /\ pass = 1
        THEN /\ phase' = "loadEffect" /\ pass' = 2
             /\ progressIntervalRef' = stopped.ref /\ timers' = stopped.timers
        ELSE /\ phase' = "rerender" /\ pass' = pass
             /\ UNCHANGED << progressIntervalRef, timers >>
  /\ onYouTubeIframeAPIReady' = Closure(chapters, currentChapter, videoId)
  /\ UNCHANGED << strictMode, pendingProgress, localStorage, reactState,
                  playerRef, windowYT, inflight, probe >>

\* The render for the state updates queued by the mount effects, and the
\* save effect that its new progress value triggers.
Rerender ==
  /\ phase = "rerender"
  /\ phase' = "running" /\ strictMode' = FALSE /\ pass' = 0
  /\ IF pendingProgress = << >>
     THEN UNCHANGED << progress, localStorage >>
     ELSE /\ progress' = pendingProgress[Len(pendingProgress)]
          /\ localStorage' = SaveProgressEffect(progress')
  /\ pendingProgress' = << >>
  /\ UNCHANGED << chapters, loading, error, videoId, currentChapter,
                  playerReady, trackerState, inflight, probe >>

\* The tab is closed (or reloaded): everything but localStorage is gone.
CloseSession ==
  /\ phase \in {"running", "crashed"}
  /\ phase' = "closed"
  /\ chapters' = << >> /\ loading' = FALSE /\ error' = "" /\ videoId' = ""
  /\ progress' = EmptyStore /\ currentChapter' = 0 /\ playerReady' = FALSE
  /\ playerRef' = NoPlayer /\ progressIntervalRef' = 0 /\ timers' = NoTimers
  /\ windowYT' = FALSE /\ onYouTubeIframeAPIReady' = NoClosure
  /\ inflight' = NoRequests /\ pendingProgress' = << >>
  /\ pass' = 0 /\ strictMode' = FALSE
  /\ UNCHANGED << localStorage, probe >>

\* ------------------------------------------------- commit of a re-render
\* Effects React runs after committing the state a handler has set.
\* Save effect: runs when setProgress produced a new object.
CommitSave(progressSet) ==
  localStorage' = IF progressSet THEN SaveProgressEffect(progress')
                  ELSE localStorage

\* Player effect, deps [videoId, playerReady]: cleanup of the previous run
\* (stopProgressTracking), then the body with the closure of the new render.
CommitPlayerEffect ==
  IF videoId' # videoId \/ playerReady' # playerReady
  THEN LET stopped == stopProgressTracking(progressIntervalRef, timers)
           c == Closure(chapters', currentChapter', videoId')
       IN /\ progressIntervalRef' = stopped.ref
          /\ timers' = stopped.timers
          /\ IF windowYT
             THEN /\ playerRef' = initializeYouTubePlayer(c, playerReady', playerRef)
                  /\ UNCHANGED onYouTubeIframeAPIReady
             ELSE /\ onYouTubeIframeAPIReady' = c
                  /\ UNCHANGED playerRef
          /\ UNCHANGED windowYT
  ELSE UNCHANGED trackerState

sessionVars == << phase, strictMode, pass, pendingProgress >>

\* ---------------------------------------------------------- fetchChapters
TotalInflight == inflight["A"] + inflight["B"]

fetchChapters(u) ==
  /\ phase = "running"
  /\ IF u = ""
     THEN /\ error' = "Please enter a YouTube URL"
          /\ UNCHANGED << chapters, loading, videoId, playerReady, inflight >>
     ELSE /\ chapters' = << >>
          /\ playerReady' = FALSE
          /\ IF extractVideoId(u) = ""
             THEN /\ error' = "Invalid YouTube URL"
                  /\ loading' = FALSE
                  /\ UNCHANGED << videoId, inflight >>
             ELSE /\ TotalInflight < MaxInflight
                  /\ error' = ""
                  /\ loading' = TRUE
                  /\ videoId' = extractVideoId(u)
                  /\ inflight' = [inflight EXCEPT ![extractVideoId(u)] = @ + 1]
  /\ UNCHANGED << progress, currentChapter >>
  /\ CommitSave(FALSE)
  /\ CommitPlayerEffect
  /\ UNCHANGED << sessionVars, probe >>

\* The "Load Course" button is disabled while loading.
ClickLoadCourse(u) == ~loading /\ fetchChapters(u)

\* Enter in the URL field calls fetchChapters whatever loading is.
KeyPressEnter(u) == fetchChapters(u)

\* The response of one pending request arrives (the rest of fetchChapters).
FetchResponse(id, ok) ==
  /\ phase = "running"
  /\ inflight[id] > 0
  /\ inflight' = [inflight EXCEPT ![id] = @ - 1]
  /\ IF ok
     THEN /\ chapters' = chaptersWithTimestamps(ChapterSource(id))
          /\ playerReady' = TRUE
          /\ UNCHANGED error
     ELSE /\ error' = "Failed to fetch chapters"
          /\ UNCHANGED << chapters, playerReady >>
  /\ loading' = FALSE
  /\ UNCHANGED << videoId, progress, currentChapter >>
  /\ CommitSave(FALSE)
  /\ CommitPlayerEffect
  /\ UNCHANGED << sessionVars, probe >>

\* The IFrame API script has loaded: window.YT is set and the stored
\* window.onYouTubeIframeAPIReady (initializeYouTubePlayer) is called, once:
\* nothing reads the callback afterwards.
YTApiLoaded ==
  /\ phase = "running"
  /\ ~windowYT
  /\ windowYT' = TRUE
  /\ playerRef' = initializeYouTubePlayer(onYouTubeIframeAPIReady, playerReady,
                                          playerRef)
  /\ onYouTubeIframeAPIReady' = NoClosure
  /\ UNCHANGED << sessionVars, localStorage, reactState, progressIntervalRef,
                  timers, inflight, probe >>


\* ------------------------------------------------------- player callbacks
\* onReady of the player: onPlayerReady -> startProgressTracking, with the
\* functions of the render that created the player.
PlayerOnReady ==
  /\ phase = "running"
  /\ playerRef.kind = "loading"
  /\ FreeTimerIds(stopProgressTracking(progressIntervalRef, timers).timers) # {}
  /\ LET started == startProgressTracking(progressIntervalRef, timers,
                                          playerRef.closure)
     IN /\ progressIntervalRef' = started.ref
        /\ timers' = started.timers
  /\ playerRef' = [playerRef EXCEPT !.kind = "ready"]
  /\ UNCHANGED << sessionVars, localStorage, reactState, windowYT,
                  onYouTubeIframeAPIReady, inflight, probe >>

\* The values of YT.PlayerState the player reports; when it reports which
\* is up to the player and the viewer.
PlayerStates == {"playing", "paused", "ended", "buffering"}

\* Variant: only a pause cancels the interval, the end of the video does not.
onPlayerStateChangePauseOnly(s, ref, tm, c) ==
  IF s = "playing" THEN startProgressTracking(ref, tm, c)
  ELSE IF s = "paused" THEN stopProgressTracking(ref, tm)
  ELSE [ref |-> ref, timers |-> tm]

\* onPlayerStateChange(event) with event.data = s
onPlayerStateChange(s, ref, tm, c) ==
  IF s = "playing" THEN startProgressTracking(ref, tm, c)
  ELSE IF s \in {"paused", "ended"} THEN stopProgressTracking(ref, tm)
  ELSE [ref |-> ref, timers |-> tm]

PlayerStateChange(s) ==
  /\ phase = "running"
  /\ playerRef.kind = "ready"
  /\ FreeTimerIds(stopProgressTracking(progressIntervalRef, timers).timers) # {}
  /\ LET after == onPlayerStateChange(s, progressIntervalRef, timers,
                                      playerRef.closure)
     IN /\ progressIntervalRef' = after.ref
        /\ timers' = after.timers
  /\ UNCHANGED << sessionVars, localStorage, reactState, playerRef, windowYT,
                  onYouTubeIframeAPIReady, inflight, probe >>

\* The video plays on: the clock advances.
PlayerClock ==
  /\ phase = "running"
  /\ playerRef.kind = "ready"
  /\ playerRef.time < MaxTime
  /\ playerRef' = [playerRef EXCEPT !.time = @ + 1]
  /\ UNCHANGED << sessionVars, localStorage, reactState, progressIntervalRef,
                  timers, windowYT, onYouTubeIframeAPIReady, inflight, probe >>

\* The user moves the position back with the player's own controls.
PlayerControlsSeek(t) ==
  /\ phase = "running"
  /\ playerRef.kind = "ready"
  /\ t < playerRef.time
  /\ playerRef' = [playerRef EXCEPT !.time = t]
  /\ UNCHANGED << sessionVars, localStorage, reactState, progressIntervalRef,
                  timers, windowYT, onYouTubeIframeAPIReady, inflight, probe >>

\* ----------------------------------------------------------- trackProgress
\* One firing of the interval id: trackProgress of the render captured when
\* the interval was started (closure c); playerRef and the setProgress
\* updater's prev are current.
\* Variant: samples without looking at the player or the chapter list.
TrackProgressRunsUnguarded(c) ==
  ResolveChapter(c.chapters, playerRef.time) # c.currentChapter

TrackProgressRuns(c) ==
  /\ playerRef.kind = "ready"
  /\ c.chapters # << >>
  /\ ResolveChapter(c.chapters, playerRef.time) # c.currentChapter

\* The "if (newCurrentChapter > currentChapter)" of trackProgress.
TrackProgressAdvances(c) ==
  /\ TrackProgressRuns(c)
  /\ ResolveChapter(c.chapters, playerRef.time) > c.currentChapter

\* The current chapter and the store that trackProgress leaves behind.
TrackedChapter(c) ==
  IF TrackProgressRuns(c) THEN ResolveChapter(c.chapters, playerRef.time)
  ELSE currentChapter

TrackedProgress(c) ==
  IF TrackProgressAdvances(c)
  THEN ApplyChapterAdvance(progress, c.videoId, c.chapters,
                           ResolveChapter(c.chapters, playerRef.time))
  ELSE progress

TimerTick(id) ==
  /\ phase = "running"
  /\ timers[id] # NoClosure
  /\ TrackProgressAdvances(timers[id]) =>
       VideoProgressOf(progress, timers[id].videoId).totalWatchTime < MaxWatch
  /\ currentChapter' = TrackedChapter(timers[id])
  /\ progress' = TrackedProgress(timers[id])
  /\ CommitSave(TrackProgressAdvances(timers[id]))
  /\ UNCHANGED << chapters, loading, error, videoId, playerReady >>
  /\ UNCHANGED << sessionVars, trackerState, inflight, probe >>

\* ----------------------------------------------------------- seekToChapter
\* Click on entry chapterIndex of the chapter list.  A player object that
\* is not ready yet has no seekTo method: the call throws before
\* setCurrentChapter is reached.
seekToChapter(chapterIndex) ==
  /\ phase = "running"
  /\ chapterIndex \in 0..(Len(chapters) - 1)
  /\ IF playerRef.kind = "null"
     THEN UNCHANGED << playerRef, currentChapter >>
     ELSE IF playerRef.kind = "ready"
     THEN /\ playerRef' = [playerRef EXCEPT !.time = chapters[chapterIndex + 1]]
          /\ currentChapter' = chapterIndex
     ELSE UNCHANGED << playerRef, currentChapter >>
  /\ UNCHANGED << chapters, loading, error, videoId, progress, playerReady >>
  /\ UNCHANGED << sessionVars, localStorage, progressIntervalRef, timers,
                  windowYT, onYouTubeIframeAPIReady, inflight, probe >>

\* ---------------------------------------------------- markChapterCompleted
markChapterCompleted(chapterIndex) ==
  /\ videoId # ""
  /\ progress' = ToggleCompletion(progress, videoId, chapters, chapterIndex)
  /\ CommitSave(TRUE)

\* The button of lines 435-454, rendered when chapters[currentChapter]
\* exists; it passes currentChapter.
ClickMarkComplete ==
  /\ phase = "running"
  /\ Len(chapters) > 0 /\ currentChapter < Len(chapters)
  /\ markChapterCompleted(currentChapter)
  /\ UNCHANGED << chapters, loading, error, videoId, currentChapter,
                  playerReady >>
  /\ UNCHANGED << sessionVars, trackerState, inflight, probe >>

\* Positions of the chapter list the sidebar can show.
ChapterIndices == 0..(Len(ChapterSource("A")) - 1)

\* -------------------------------------------------------------------- Next
Next ==
  \/ \E strict \in BOOLEAN : OpenSession(strict)
  \/ LoadProgressEffect
  \/ MountSaveEffect
  \/ MountPlayerEffect
  \/ Rerender
  \/ CloseSession
  \/ \E u \in Urls : ClickLoadCourse(u)
  \/ \E u \in Urls : KeyPressEnter(u)
  \/ \E id \in Videos, ok \in BOOLEAN : FetchResponse(id, ok)
  \/ YTApiLoaded
  \/ PlayerOnReady
  \/ \E s \in PlayerStates : PlayerStateChange(s)
  \/ PlayerClock
  \/ \E t \in 0..MaxTime : PlayerControlsSeek(t)
  \/ \E id \in TimerIds : TimerTick(id)
  \/ \E i \in ChapterIndices : seekToChapter(i)
  \/ ClickMarkComplete

Spec == Init /\ [][Next]_vars


\* ------------------------------------------------------- resolution probe
\* Chapter resolution on its own: every non-decreasing chapter list of up
\* to MaxLen offsets in 0..MaxOffset, every query time up to MaxOffset + 1.
NonDecreasing(chs) == \A i \in 1..(Len(chs) - 1) : chs[i] <= chs[i + 1]

ProbeInputs ==
  { [chapters |-> chs, time |-> t, result |-> -1] :
      chs \in { c \in UNION { [1..n -> 0..MaxOffset] : n \in 1..MaxLen } :
                  NonDecreasing(c) },
      t \in 0..(MaxOffset + 1) }

InitResolve ==
  /\ phase = "closed"
  /\ localStorage = AbsentItem
  /\ BlankPage
  /\ probe \in ProbeInputs

ResolveStep ==
  /\ probe.result = -1
  /\ probe' = [probe EXCEPT !.result = ResolveChapter(probe.chapters, probe.time)]
  /\ UNCHANGED << sessionVars, localStorage, reactState, trackerState, inflight >>

NextResolve == ResolveStep

SpecResolve == InitResolve /\ [][NextResolve]_vars

\* --------------------------------------------------------- sampling probe
\* trackProgress on its own: one interval whose callback closed over a
\* chapter list (possibly empty, for a video without chapters), with the
\* player object missing or ready at some clock value.
TrackClosures ==
  { Closure(chs, cur, vid) :
      chs \in {<< >>, << 0 >>, << 0, 1 >>}, cur \in 0..1, vid \in Videos }

TrackStores ==
  { EmptyStore,
    [v \in {"A"} |-> [DefaultProgress EXCEPT !.completedChapters = << 1 >>,
                                             !.lastWatchedChapter = 1,
                                             !.progressPercentage = 50]] }

InitTrack ==
  /\ phase = "running" /\ strictMode = FALSE /\ pass = 0
  /\ pendingProgress = << >>
  /\ \E c \in TrackClosures :
       /\ timers = [NoTimers EXCEPT ![1] = c]
       /\ chapters = c.chapters /\ videoId = c.videoId
       /\ playerRef \in {NoPlayer} \cup
            { [kind |-> "ready", time |-> t, closure |-> c] : t \in 0..MaxTime }
  /\ progressIntervalRef = 1
  /\ currentChapter \in 0..1
  /\ progress \in TrackStores
  /\ localStorage = SaveProgressEffect(progress)
  /\ loading = FALSE /\ error = "" /\ playerReady = (playerRef.kind = "ready")
  /\ windowYT = TRUE /\ onYouTubeIframeAPIReady = NoClosure
  /\ inflight = NoRequests
  /\ probe = IdleProbe

NextTrack == \E id \in TimerIds : TimerTick(id)

SpecTrack == InitTrack /\ [][NextTrack]_vars

\* ================================================================== claims
ChapterCount(v) == Len(ChapterSource(v))

CompletedSet(p, v) ==
  IF v \in DOMAIN p THEN Range(p[v].completedChapters) ELSE {}

\* The nearest integer to 100 * k / n, halves rounded up.
RoundedPercent(k, n) ==
  CHOOSE r \in 0..(100 * (k + 1)) :
    (2 * r - 1) * n <= 200 * k /\ 200 * k < (2 * r + 1) * n

\* C1: for every non-empty non-decreasing chapter list and every time t, the
\* resolved chapter is the greatest index whose offset is <= t, and 0 when t
\* is before the first offset.
C1_ResolveGreatestIndex ==
  probe.result # -1 =>
    LET started == { i \in 0..(Len(probe.chapters) - 1) :
                       probe.chapters[i + 1] <= probe.time }
    IN IF started = {} THEN probe.result = 0
       ELSE /\ probe.result \in started
            /\ \A j \in started : j <= probe.result

\* C1 witness: a tie on equal offsets resolved to the highest index.
C1_Witness ==
  /\ probe.chapters = << 0, 1, 1 >> /\ probe.time = 1 /\ probe.result = 2

\* Interval id is about to sample a readable clock.
Samples(id) ==
  /\ phase = "running"
  /\ timers[id] # NoClosure
  /\ playerRef.kind = "ready"
  /\ timers[id].chapters # << >>

Resolved(id) == ResolveChapter(timers[id].chapters, playerRef.time)

\* C2: when a sample resolves to a chapter b above the current chapter, the
\* store the sample leaves behind has, for the loaded video, 0..b-1 and all
\* that was completed before in completedChapters, and lastWatchedChapter b.
C2_AdvanceCompletesPrevious ==
  \A id \in TimerIds :
    (Samples(id) /\ Resolved(id) > currentChapter) =>
      LET after == TrackedProgress(timers[id])
      IN /\ videoId \in DOMAIN after
         /\ 0..(Resolved(id) - 1) \subseteq CompletedSet(after, videoId)
         /\ CompletedSet(progress, videoId) \subseteq CompletedSet(after, videoId)
         /\ after[videoId].lastWatchedChapter = Resolved(id)

\* C3: every stored record's progressPercentage is
\* round(100 * |completedChapters| / chapterCount) of its video's chapter
\* list, lies in 0..100, and is 0 when the video has no chapters.
C3_PercentageDerived ==
  \A v \in DOMAIN progress :
    /\ progress[v].progressPercentage \in 0..100
    /\ progress[v].progressPercentage =
         IF ChapterCount(v) = 0 THEN 0
         ELSE RoundedPercent(Cardinality(CompletedSet(progress, v)), ChapterCount(v))

\* C4: two consecutive clicks on the completion button (same chapter, nothing
\* in between) restore the video's completed set and its percentage.
C4_DoubleToggleRestores ==
  (phase = "running" /\ Len(chapters) > 0 /\ currentChapter < Len(chapters)
     /\ videoId # "") =>
    LET once == ToggleCompletion(progress, videoId, chapters, currentChapter)
        twice == ToggleCompletion(once, videoId, chapters, currentChapter)
    IN /\ CompletedSet(twice, videoId) = CompletedSet(progress, videoId)
       /\ twice[videoId].progressPercentage =
            VideoProgressOf(progress, videoId).progressPercentage

\* C5: the load at session start, from an absent or unparsable stored
\* value, leaves the store empty, raises no error and goes on to the save.
C5_LoadFailsSoft ==
  [][(phase = "loadEffect" /\ localStorage.kind # "json") =>
       /\ phase' = "saveEffect"
       /\ pendingProgress' = pendingProgress
       /\ progress' = EmptyStore]_vars

StartupPhases == {"loadEffect", "saveEffect", "playerEffect", "rerender"}

\* C6: during start-up the stored value is never replaced by one that has
\* lost a stored record, and when start-up ends the in-memory store is the
\* stored one.
C6_StartupRestores ==
  [][(phase \in StartupPhases /\ localStorage.kind = "json") =>
       /\ localStorage'.kind = "json"
       /\ \A v \in DOMAIN localStorage.value :
            /\ v \in DOMAIN localStorage'.value
            /\ localStorage'.value[v] = localStorage.value[v]
       /\ (phase' = "running" => progress' = JSONparse(localStorage'))]_vars

\* C7: once the handler of a mutation and its save have run, the stored
\* value is the complete in-memory mapping.
C7_SavedAfterMutation ==
  phase = "running" =>
    /\ localStorage.kind = "json"
    /\ DOMAIN localStorage.value = DOMAIN progress
    /\ \A v \in DOMAIN progress : localStorage.value[v] = progress[v]

\* C7 witness: a store with a record for each of two videos has been saved.
C7_Witness ==
  /\ phase = "running"
  /\ DOMAIN progress = Videos
  /\ DOMAIN localStorage.value = Videos
  /\ \E v \in Videos : progress[v].totalWatchTime > 0

\* C8: the completion button flips the membership of the current chapter in
\* the loaded video's completedChapters, sets lastWatchedChapter to it, and
\* keeps totalWatchTime, the current chapter and the other records; with no
\* record it starts from the default one.
C8_ToggleFlipsMembership ==
  [][ClickMarkComplete =>
       LET before == CompletedSet(progress, videoId)
           after == CompletedSet(progress', videoId)
       IN /\ videoId \in DOMAIN progress'
          /\ after = (before \ {currentChapter}) \cup ({currentChapter} \ before)
          /\ progress'[videoId].lastWatchedChapter = currentChapter
          /\ progress'[videoId].totalWatchTime =
               (IF videoId \in DOMAIN progress
                THEN progress[videoId].totalWatchTime ELSE 0)
          /\ currentChapter' = currentChapter
          /\ \A v \in DOMAIN progress :
               v # videoId => (v \in DOMAIN progress' /\ progress'[v] = progress[v])]_vars

\* C8 witness: while the interval is sampling, a record whose last watched
\* chapter has been un-completed again (only a second click does that once
\* an advance has completed the chapters before it).
C8_Witness ==
  /\ phase = "running" /\ progressIntervalRef # 0
  /\ videoId \in DOMAIN progress
  /\ progress[videoId].lastWatchedChapter = 0
  /\ progress[videoId].totalWatchTime = 1
  /\ progress[videoId].completedChapters = << >>

\* C9: every stored record's completedChapters lies within the chapter
\* indices of its video.
C9_CompletedWithinRange ==
  \A v \in DOMAIN progress :
    CompletedSet(progress, v) \subseteq 0..(ChapterCount(v) - 1)

\* A load that fails: an unrecognized reference, or a failing response.
FailedLoadStep ==
  \/ \E u \in Urls : u # "" /\ extractVideoId(u) = "" /\ fetchChapters(u)
  \/ \E id \in Videos : FetchResponse(id, FALSE)

\* C10: a failing load shows an error and leaves the chapter list, the video
\* identifier and the progress store as they were.
C10_FailedLoadKeepsState ==
  [][FailedLoadStep =>
       /\ error' # ""
       /\ chapters' = chapters
       /\ videoId' = videoId
       /\ progress' = progress]_vars

\* A video with no record is read as "no progress" and reading stores
\* nothing.
ReadsAsNoProgress(v) ==
  /\ getVideoProgress(progress, v) = << >>
  /\ progressPercentageShown(progress, v) = 0
  /\ \A i \in ChapterIndices : ~isCompletedShown(progress, v, i)
  /\ VideoProgressOf(progress, v).completedChapters = << >>
  /\ VideoProgressOf(progress, v).lastWatchedChapter = -1
  /\ VideoProgressOf(progress, v).progressPercentage = 0

\* The record rec is what a first toggle or a first advance makes of the
\* default values.
FirstMutationOfDefault(rec) ==
  \/ /\ rec.totalWatchTime = 0
     /\ rec.completedChapters = << rec.lastWatchedChapter >>
     /\ rec.lastWatchedChapter >= 0
  \/ /\ rec.totalWatchTime = 1
     /\ rec.lastWatchedChapter >= 1
     /\ Len(rec.completedChapters) = rec.lastWatchedChapter
     /\ \A i \in 1..Len(rec.completedChapters) : rec.completedChapters[i] = i - 1

\* C11: in a running session a video without a record reads as no progress
\* (nothing completed, last watched -1, 0 percent) and the read raises no
\* error; no step other than a mutation creates a record, and the record a
\* first mutation creates starts from the default values.
C11_UnknownVideoReadsDefault ==
  /\ [](phase = "running" =>
         \A v \in Videos : v \notin DOMAIN progress => ReadsAsNoProgress(v))
  /\ [][(phase = "running" /\ phase' # "closed") =>
          /\ phase' = "running"
          /\ \A v \in Videos :
               (v \notin DOMAIN progress /\ v \in DOMAIN progress') =>
                 /\ (ClickMarkComplete \/ \E id \in TimerIds : TimerTick(id))
                 /\ FirstMutationOfDefault(progress'[v])]_vars

\* C11 witness: the loaded video has no record while another video has one,
\* and again after its first mutation created the record.
C11_Witness ==
  /\ phase = "running" /\ chapters # << >> /\ videoId = "B"
  /\ DOMAIN progress = {"A", "B"}
  /\ FirstMutationOfDefault(progress["B"])
  /\ progress["B"].totalWatchTime = 0

ActiveTimers == {id \in TimerIds : timers[id] # NoClosure}

\* C12: when the player created for the loaded chapters signals that it is
\* ready, no sampling interval is active afterwards: only a report of
\* "playing" starts one.
C12_ReadyDoesNotSample ==
  [][(playerRef.kind = "loading" /\ playerRef'.kind = "ready") =>
       (progressIntervalRef' = 0 /\ ActiveTimers' = {})]_vars

\* The player of the current load is ready and its interval is cancelled:
\* the state a report of "paused" or "ended" leaves behind.
PausedOrEnded == phase = "running" /\ playerRef.kind = "ready" /\ progressIntervalRef = 0

\* C13: a report of paused or ended cancels the interval; from then on, for
\* this player, no sample runs and the interval stays cancelled until
\* "playing" is reported, and that report makes the interval active again.
C13_PauseStopsSampling ==
  /\ [](phase = "running" /\ playerRef.kind = "ready" =>
         \A s \in {"paused", "ended"} :
           LET after == onPlayerStateChange(s, progressIntervalRef, timers,
                                           playerRef.closure)
           IN after.ref = 0 /\ after.timers = NoTimers)
  /\ [][
     /\ PausedOrEnded =>
          /\ ActiveTimers = {}
          /\ \/ PlayerStateChange("playing")
             \/ CloseSession
             \/ /\ progressIntervalRef' = 0 /\ ActiveTimers' = {}
                /\ currentChapter' # currentChapter =>
                     \E i \in ChapterIndices : seekToChapter(i)
                /\ progress' # progress => ClickMarkComplete
     /\ PlayerStateChange("playing") =>
          /\ progressIntervalRef' # 0
          /\ ActiveTimers' = {progressIntervalRef'}
          /\ timers'[progressIntervalRef'] = playerRef.closure]_vars

\* C13 witness: sampling has advanced a chapter, and the interval is now
\* cancelled while the player is still there.
C13_Witness ==
  /\ PausedOrEnded /\ videoId \in DOMAIN progress
  /\ progress[videoId].totalWatchTime = 1 /\ currentChapter = 1
  /\ playerRef.time = 1

\* C14: at most one interval is active, it is the one held in
\* progressIntervalRef, it belongs to the video now loaded (a load cancels
\* the interval of the video before), and cancelling with no interval
\* active changes nothing.
C14_AtMostOneTimer ==
  /\ Cardinality(ActiveTimers) <= 1
  /\ ActiveTimers = (IF progressIntervalRef = 0 THEN {} ELSE {progressIntervalRef})
  /\ \A id \in ActiveTimers : timers[id].videoId = videoId
  /\ progressIntervalRef = 0 =>
       stopProgressTracking(progressIntervalRef, timers) =
         [ref |-> progressIntervalRef, timers |-> timers]

\* C14 witness: an interval is active for the second video loaded in the
\* session, after one had been active for the first.
C14_Witness ==
  /\ phase = "running" /\ progressIntervalRef # 0
  /\ videoId = "B" /\ "A" \in DOMAIN progress
  /\ progress["A"].totalWatchTime = 1

\* C15: a sample that resolves below the current chapter sets the current
\* chapter to the resolved index and leaves the store as it is; no sample
\* removes an index from any completedChapters.
C15_BackwardSampleKeepsStore ==
  \A id \in TimerIds :
    Samples(id) =>
      /\ Resolved(id) < currentChapter =>
           /\ TrackedChapter(timers[id]) = Resolved(id)
           /\ TrackedProgress(timers[id]) = progress
      /\ \A v \in DOMAIN progress :
           CompletedSet(progress, v) \subseteq
             CompletedSet(TrackedProgress(timers[id]), v)

\* C16: a sample that resolves to the current chapter or below it leaves the
\* store, and so totalWatchTime, unchanged; a sample that resolves above it
\* adds exactly one to the loaded video's totalWatchTime.
C16_WatchTimeOnlyOnAdvance ==
  \A id \in TimerIds :
    Samples(id) =>
      LET after == TrackedProgress(timers[id])
      IN IF Resolved(id) > currentChapter
         THEN /\ videoId \in DOMAIN after
              /\ after[videoId].totalWatchTime =
                   VideoProgressOf(progress, videoId).totalWatchTime + 1
         ELSE after = progress

\* C17: a click on chapter i with a usable player moves the clock to the
\* offset of i, makes i the current chapter and leaves the store alone, and
\* a sample that then resolves to i changes nothing in the store.
C17_SeekSetsCurrentChapter ==
  [][\A i \in ChapterIndices :
       (playerRef.kind = "ready" /\ seekToChapter(i)) =>
         /\ playerRef'.time = chapters[i + 1]
         /\ currentChapter' = i
         /\ progress' = progress
         /\ \A id \in TimerIds :
              (Samples(id)' /\ Resolved(id)' = i) =>
                TrackedProgress(timers[id])' = progress']_vars

C19_CurrentChapterValid ==
  phase = "running" =>
    /\ chapters # << >> => currentChapter \in 0..(Len(chapters) - 1)
    /\ playerRef.kind = "loading" => playerRef.closure.currentChapter = 0

\* C20: once no fetch is pending, a loaded chapter list is the list of the
\* current video identifier.
C20_ChaptersOfCurrentVideo ==
  (phase = "running" /\ TotalInflight = 0 /\ chapters # << >>) =>
    chapters = chaptersWithTimestamps(ChapterSource(videoId))

====
